---- MODULE Spec2Model ----
(***************************************************************************)
(* Model of package scope (src/scope/scope.go): a tree of scopes, each     *)
(* with a local set of claimed names and a link to its parent, and the     *)
(* name policies Claim and ClaimGlobal are built from.                     *)
(*                                                                         *)
(* A Go string is modelled as a sequence of one-character strings, so that *)
(* filtering, prefixing and decimal formatting are computed character by   *)
(* character as the code computes them.                                    *)
(***************************************************************************)
EXTENDS Integers, Sequences, FiniteSets, TLC

\* ------------------------------------------------------------------ bounds
\* Largest number of scopes ever created (roots and derived scopes).
MaxScopes == 3
\* Largest number of Claim / ClaimGlobal calls in one behaviour of Spec.
MaxOps == 3
\* The same two bounds for SpecCeil and SpecSuffix, whose calls repeat few
\* raw names on few scopes.
MaxCeilScopes == 2
MaxCeilOps == 4
\* Number of calls that ClaimLoop makes in one step in SpecCeil: the first
\* calls of the loop of 1000 calls, the calls that follow being single steps.
Prefill == 998
\* The same two bounds for SpecPolicy, whose scopes form one chain and carry
\* policy overrides.
MaxPolScopes == 3
MaxPolOps == 2
\* Longest string over Alphabet handed to the name functions in SpecNames.
MaxLen == 3

\* ------------------------------------------------------- program constants
\* const maxAttempts = 999 in defaultUniqueNameFunc.
maxAttempts == 999

\* ------------------------------------------------------------- characters
\* The cased letters of the model, in alphabet order: CaseLower[i] and
\* CaseUpper[i] are the two cases of one letter.
CaseLower ==
    << "a", "b", "c", "d", "e", "f", "g", "h", "i", "j", "k", "l", "m",
       "n", "o", "p", "q", "r", "s", "t", "u", "v", "w", "x", "y", "z" >>

CaseUpper ==
    << "A", "B", "C", "D", "E", "F", "G", "H", "I", "J", "K", "L", "M",
       "N", "O", "P", "Q", "R", "S", "T", "U", "V", "W", "X", "Y", "Z" >>

LowerLetters == { CaseLower[i] : i \in 1..26 }

UpperLetters == { CaseUpper[i] : i \in 1..26 }

\* A letter that has no case, such as the Han characters of the tests.
OtherLetters == { "<Lo>" }

\* unicode.IsLetter, on the characters of the model.
IsLetter(r) == r \in LowerLetters \cup UpperLetters \cup OtherLetters

\* unicode.IsUpper, on the characters of the model.
IsUpper(r) == r \in UpperLetters

\* unicode.ToLower and unicode.ToUpper: the other case of a cased letter,
\* every other character unchanged.
ToLower(r) ==
    IF r \in UpperLetters
    THEN CaseLower[CHOOSE i \in 1..26 : CaseUpper[i] = r]
    ELSE r

ToUpper(r) ==
    IF r \in LowerLetters
    THEN CaseUpper[CHOOSE i \in 1..26 : CaseLower[i] = r]
    ELSE r

DigitChars == << "0", "1", "2", "3", "4", "5", "6", "7", "8", "9" >>

\* A character of the category Number that is no decimal digit, such as a
\* superscript two.
OtherNumbers == { "<No>" }

\* unicode.IsDigit, on the characters of the model.
IsDigit(r) == \E i \in 1..10 : DigitChars[i] = r

\* unicode.In(r, unicode.Number), on the characters of the model.
IsNumber(r) == IsDigit(r) \/ r \in OtherNumbers

\* utf8.RuneError: what decoding yields at an invalid byte, at the end of
\* the string, and at an encoded U+FFFD.
RuneError == "<RuneError>"

\* The value -1 that a strings.Map mapping returns to drop a character.
DropRune == "<drop>"

\* The value returned in place of a name by a call that did not return.
NoName == << "<none>" >>

\* A nil *Scope, and a nil policy function.
NilScope == 0
NilFunc == << "<nil>" >>

\* fmt.Sprintf("%d", n) for n >= 0: the decimal digits of n.
RECURSIVE Itoa(_)
Itoa(n) ==
    IF n < 10 THEN << DigitChars[n + 1] >>
    ELSE Itoa(n \div 10) \o << DigitChars[(n % 10) + 1] >>

\* go/token keywords (token.IsKeyword).
Keywords ==
    { <<"b", "r", "e", "a", "k">>, <<"c", "a", "s", "e">>, <<"c", "h", "a", "n">>,
      <<"c", "o", "n", "s", "t">>, <<"c", "o", "n", "t", "i", "n", "u", "e">>,
      <<"d", "e", "f", "a", "u", "l", "t">>, <<"d", "e", "f", "e", "r">>,
      <<"e", "l", "s", "e">>, <<"f", "a", "l", "l", "t", "h", "r", "o", "u", "g", "h">>,
      <<"f", "o", "r">>, <<"f", "u", "n", "c">>, <<"g", "o">>, <<"g", "o", "t", "o">>,
      <<"i", "f">>, <<"i", "m", "p", "o", "r", "t">>,
      <<"i", "n", "t", "e", "r", "f", "a", "c", "e">>, <<"m", "a", "p">>,
      <<"p", "a", "c", "k", "a", "g", "e">>, <<"r", "a", "n", "g", "e">>,
      <<"r", "e", "t", "u", "r", "n">>, <<"s", "e", "l", "e", "c", "t">>,
      <<"s", "t", "r", "u", "c", "t">>, <<"s", "w", "i", "t", "c", "h">>,
      <<"t", "y", "p", "e">>, <<"v", "a", "r">> }

\* The names listed in predeclared().
PredeclaredNames ==
    { <<"b", "o", "o", "l">>, <<"b", "y", "t", "e">>,
      <<"c", "o", "m", "p", "l", "e", "x", "6", "4">>,
      <<"c", "o", "m", "p", "l", "e", "x", "1", "2", "8">>, <<"e", "r", "r", "o", "r">>,
      <<"f", "l", "o", "a", "t", "3", "2">>, <<"f", "l", "o", "a", "t", "6", "4">>,
      <<"i", "n", "t">>, <<"i", "n", "t", "8">>, <<"i", "n", "t", "1", "6">>,
      <<"i", "n", "t", "3", "2">>, <<"i", "n", "t", "6", "4">>, <<"r", "u", "n", "e">>,
      <<"s", "t", "r", "i", "n", "g">>, <<"u", "i", "n", "t">>, <<"u", "i", "n", "t", "8">>,
      <<"u", "i", "n", "t", "1", "6">>, <<"u", "i", "n", "t", "3", "2">>,
      <<"u", "i", "n", "t", "6", "4">>, <<"u", "i", "n", "t", "p", "t", "r">>,
      <<"t", "r", "u", "e">>, <<"f", "a", "l", "s", "e">>, <<"i", "o", "t", "a">>,
      <<"n", "i", "l">>, <<"a", "p", "p", "e", "n", "d">>, <<"c", "a", "p">>,
      <<"c", "l", "o", "s", "e">>, <<"c", "o", "m", "p", "l", "e", "x">>,
      <<"c", "o", "p", "y">>, <<"d", "e", "l", "e", "t", "e">>, <<"i", "m", "a", "g">>,
      <<"l", "e", "n">>, <<"m", "a", "k", "e">>, <<"n", "e", "w">>,
      <<"p", "a", "n", "i", "c">>, <<"p", "r", "i", "n", "t">>,
      <<"p", "r", "i", "n", "t", "l", "n">>, <<"r", "e", "a", "l">>,
      <<"r", "e", "c", "o", "v", "e", "r">>, <<"a", "n", "y">> }

\* -------------------------------------------------------------- raw names
\* The raw names handed to Claim and ClaimGlobal in Spec: a keyword, and a
\* name with a character that is dropped; both are sanitized to "_func".
RawNames ==
    { << "f", "u", "n", "c" >>, << "_", "f", "u", "n", "c", "-" >> }

\* The raw name of SpecCeil: the empty string.
CeilNames == { << >> }

\* The raw names of SpecSuffix: a predeclared name, and a name ending in a
\* digit.
SuffixNames == { << "i", "n", "t" >>, << "i", "n", "t", "3" >> }

\* ------------------------------------------------------------------ state
VARIABLES
    parent,              \* parent[s]: Scope.parent, NilScope for a root
    defs,                \* defs[s]: Scope.defs as a set (a nil map is {})
    safeNameFunc,        \* safeNameFunc[s]: Scope.safeNameFunc
    uniqueNameFunc,      \* uniqueNameFunc[s]: Scope.uniqueNameFunc
    suggestVarNameFunc,  \* suggestVarNameFunc[s]: Scope.suggestVarNameFunc
    nops,                \* number of Claim / ClaimGlobal calls made, the
                         \*   calls of ClaimLoop not counted
    last,                \* the last call: operation, scope, raw name, result
    prev,                \* defs as it was just before the last call
    returned,            \* returned[s]: the calls on s that returned, each
                         \*   with its operation, result and number k
    streak               \* streak[s]: the run of identical calls made on s

vars ==
    << parent, defs, safeNameFunc, uniqueNameFunc, suggestVarNameFunc,
       nops, last, prev, returned, streak >>

Scopes == 1..Len(parent)

\* The scopes on the path from s to its root, s included.
RECURSIVE Chain(_)
Chain(s) == IF parent[s] = NilScope THEN {s} ELSE {s} \cup Chain(parent[s])

Ancestors(s) == Chain(s) \ {s}

RECURSIVE RootOf(_)
RootOf(s) == IF parent[s] = NilScope THEN s ELSE RootOf(parent[s])

\* ---------------------------------------------------------------- policies
onlyValidIdentChars(in) ==
    CASE in = "_" -> in
      [] IsLetter(in) \/ IsNumber(in) -> in
      [] OTHER -> DropRune

\* strings.Map(onlyValidIdentChars, name): the characters mapped to a
\* negative value are dropped.
RECURSIVE StringsMapValid(_)
StringsMapValid(name) ==
    IF name = << >> THEN << >>
    ELSE LET r == onlyValidIdentChars(Head(name))
         IN  (IF r = DropRune THEN << >> ELSE << r >>)
                 \o StringsMapValid(Tail(name))

predeclared(name) == name \in PredeclaredNames

IsKeyword(name) == name \in Keywords

\* Mutants of defaultSafeNameFunc: one prefixes a name that starts with an
\* underscore too, the other looks for a reserved name before it drops
\* characters.
safeNameUnderscoreToo(name) ==
    LET n1 == StringsMapValid(name)
    IN  IF n1 = << >> THEN << "v" >>
        ELSE LET n2 == IF IsKeyword(n1) \/ predeclared(n1)
                       THEN << "_" >> \o n1 ELSE n1
             IN  IF ~IsLetter(Head(n2)) THEN << "_" >> \o n2 ELSE n2

safeNameReservedFirst(name) ==
    LET n1 == IF IsKeyword(name) \/ predeclared(name)
              THEN << "_" >> \o name ELSE name
        n2 == StringsMapValid(n1)
    IN  IF n2 = << >> THEN << "v" >>
        ELSE IF ~IsLetter(Head(n2)) /\ Head(n2) # "_"
             THEN << "_" >> \o n2 ELSE n2

defaultSafeNameFunc(name) ==
    LET n1 == StringsMapValid(name)
    IN  IF n1 = << >> THEN << "v" >>
        ELSE LET n2 == IF IsKeyword(n1) \/ predeclared(n1)
                       THEN << "_" >> \o n1 ELSE n1
             IN  IF ~IsLetter(Head(n2)) /\ Head(n2) # "_"
                 THEN << "_" >> \o n2 ELSE n2

\* Scope.safeName: the scope's own function, else the parent's, else the
\* default. An overriding function is a constant function, named by the name
\* it returns.
RECURSIVE safeName(_, _)
safeName(s, name) ==
    IF safeNameFunc[s] # NilFunc THEN safeNameFunc[s]
    ELSE IF parent[s] # NilScope THEN safeName(parent[s], name)
    ELSE defaultSafeNameFunc(name)

\* Mutants of Scope.defined: one never looks at the parent, the other
\* always does.
definedLocalOnly(s, name, recursive, D) == name \in D[s]

definedInChain(s, name, recursive, D) == \E a \in Chain(s) : name \in D[a]

\* Mutant of Scope.defined: a recursive test looks at the scopes below s as
\* well as at those above it.
definedInTree(s, name, recursive, D) ==
    \/ name \in D[s]
    \/ recursive /\ \E t \in Scopes : (t \in Chain(s) \/ s \in Chain(t)) /\ name \in D[t]

\* Scope.defined on the local sets D.
RECURSIVE defined(_, _, _, _)
defined(s, name, recursive, D) ==
    CASE name \in D[s] -> TRUE
      [] ~recursive -> FALSE
      [] parent[s] = NilScope -> FALSE
      [] OTHER -> defined(parent[s], name, TRUE, D)

\* defaultUniqueNameFunc: the for loop returns safeName followed by the
\* first index below maxAttempts, in ascending order, that is not defined;
\* when every index is defined the loop runs out and the function panics
\* (NoName).
defaultUniqueNameFunc(s, name, recursive, D) ==
    LET safe == safeName(s, name)
        taken(ndx) == defined(s, safe \o Itoa(ndx), recursive, D)
    IN  IF \A ndx \in 0..(maxAttempts - 1) : taken(ndx) THEN NoName
        ELSE LET first == CHOOSE ndx \in 0..(maxAttempts - 1) :
                              /\ ~taken(ndx)
                              /\ \A j \in 0..(ndx - 1) : taken(j)
             IN  safe \o Itoa(first)

\* Scope.uniqueName: the scope's own function, else the parent's, else the
\* default, which is called with the scope the walk ended at.
RECURSIVE uniqueName(_, _, _, _)
uniqueName(s, name, recursive, D) ==
    IF uniqueNameFunc[s] # NilFunc THEN uniqueNameFunc[s]
    ELSE IF parent[s] # NilScope THEN uniqueName(parent[s], name, recursive, D)
    ELSE defaultUniqueNameFunc(s, name, recursive, D)

\* ------------------------------------------------------- suggested names
\* utf8.DecodeRuneInString: the first character of a string and the number
\* of positions it takes; RuneError and 0 for the empty string.
DecodeRuneInString(str) ==
    IF Len(str) = 0 THEN [r |-> RuneError, size |-> 0]
    ELSE [r |-> Head(str), size |-> 1]

\* The string from position size + 1 on: str[size:].
SliceFrom(str, size) == SubSeq(str, size + 1, Len(str))

\* The loop of defaultSuggestVarNameFunc over input[size:].  u0 tells whether
\* the character before slice is upper case and buf is the buffer so far; the
\* result is the buffer and the flag words at the end of the loop.
RECURSIVE SuggestLoop(_, _, _)
SuggestLoop(slice, u0, buf) ==
    IF slice = << >> THEN [buf |-> buf, words |-> TRUE]
    ELSE LET d  == DecodeRuneInString(slice)
             u1 == IsUpper(d.r)
         IN  IF d.r = RuneError THEN [buf |-> buf, words |-> FALSE]
             ELSE IF u0 /\ u1 THEN [buf |-> buf, words |-> FALSE]
             ELSE SuggestLoop(SliceFrom(slice, d.size), u1,
                              IF u1 THEN Append(buf, ToLower(d.r)) ELSE buf)

\* strings.TrimLeftFunc(input, not a letter).
RECURSIVE TrimLeftNonLetters(_)
TrimLeftNonLetters(str) ==
    IF str = << >> \/ IsLetter(Head(str)) THEN str
    ELSE TrimLeftNonLetters(Tail(str))

\* The body of defaultSuggestVarNameFunc, before its deferred function runs.
SuggestBody(input) ==
    LET d    == DecodeRuneInString(input)
        loop == SuggestLoop(SliceFrom(input, d.size), IsUpper(d.r),
                            << ToLower(d.r) >>)
        r    == DecodeRuneInString(TrimLeftNonLetters(input)).r
    IN  IF loop.words THEN loop.buf
        ELSE IF r = RuneError THEN << "v" >>
        ELSE << ToLower(r) >>

\* Mutant of defaultSuggestVarNameFunc: the deferred function does not
\* sanitize the result.
SuggestUnsanitized(input) ==
    LET ret == SuggestBody(input)
    IN  IF ret = << "_" >> THEN << "v" >> ELSE ret

\* defaultSuggestVarNameFunc: the body, then the deferred function.
defaultSuggestVarNameFunc(input) ==
    LET ret == SuggestBody(input)
    IN  defaultSafeNameFunc(IF ret = << "_" >> THEN << "v" >> ELSE ret)

\* Scope.suggestVarName: the function of the nearest scope that has one,
\* else the default.  An overriding function is a constant function, named
\* by the name it returns.
RECURSIVE suggestVarName(_, _)
suggestVarName(s, input) ==
    IF suggestVarNameFunc[s] # NilFunc THEN suggestVarNameFunc[s]
    ELSE IF parent[s] # NilScope THEN suggestVarName(parent[s], input)
    ELSE defaultSuggestVarNameFunc(input)

\* ---------------------------------------------- exported and unexported
\* Mutant of token.IsIdentifier: a keyword passes.
IsIdentifierChars(name) ==
    /\ name # << >>
    /\ \A i \in 1..Len(name) :
           \/ IsLetter(name[i])
           \/ name[i] = "_"
           \/ (i # 1 /\ IsDigit(name[i]))

\* token.IsIdentifier: not empty, no keyword, made of letters, decimal digits
\* and underscores, the first character no digit.
IsIdentifier(name) ==
    /\ name # << >>
    /\ ~IsKeyword(name)
    /\ \A i \in 1..Len(name) :
           \/ IsLetter(name[i])
           \/ name[i] = "_"
           \/ (i # 1 /\ IsDigit(name[i]))

\* token.IsExported: the first character is upper case.
IsExported(name) == IsUpper(DecodeRuneInString(name).r)

\* The outcome of Exported or Unexported: a name, or the panic raised.
Outcome(ret, outcome) == [ret |-> ret, outcome |-> outcome]

\* Mutant of unexported: every character is put in lower case.
unexportedAll(name) == [i \in 1..Len(name) |-> ToLower(name[i])]

\* unexported: the first character in lower case when it is upper case.
unexported(name) ==
    IF ~IsExported(name) THEN name
    ELSE LET d == DecodeRuneInString(name)
         IN  << ToLower(d.r) >> \o SliceFrom(name, d.size)

\* Unexported: panics on what is no identifier.
Unexported(name) ==
    IF ~IsIdentifier(name) THEN Outcome(NoName, "invalid identifier")
    ELSE Outcome(unexported(name), "ok")

\* Mutant of exported: the characters before the one put in upper case are
\* kept.
exportedWhole(name) ==
    IF \A i \in 1..Len(name) : ~IsUpper(ToUpper(name[i])) THEN NoName
    ELSE [i \in 1..Len(name) |->
             IF \A j \in 1..(i - 1) : ~IsUpper(ToUpper(name[j]))
             THEN ToUpper(name[i]) ELSE name[i]]

\* exported: the name from its first character that is, or has, an upper
\* case on; NoName for the error "input does not contain any uppercase
\* letters".
RECURSIVE exported(_)
exported(name) ==
    IF name = << >> THEN NoName
    ELSE IF IsExported(name) THEN name
    ELSE LET d     == DecodeRuneInString(name)
             upper == << ToUpper(d.r) >> \o SliceFrom(name, d.size)
         IN  IF IsExported(upper) THEN upper
             ELSE exported(SliceFrom(upper, d.size))

\* Exported: panics on what is no identifier, and on the error of exported.
Exported(name) ==
    IF ~IsIdentifier(name) THEN Outcome(NoName, "invalid identifier")
    ELSE LET ret == exported(name)
         IN  IF ret = NoName THEN Outcome(NoName, "no uppercase letters")
             ELSE Outcome(ret, "ok")

\* ------------------------------------------------------------------ define
Result(ret, D, outcome) == [ret |-> ret, defs |-> D, outcome |-> outcome]

\* Mutant of Scope.define: the name is not passed on to the parent.
RECURSIVE defineNoPropagate(_, _, _, _, _)
defineNoPropagate(s, safe, recursive, D, tried) ==
    IF ~defined(s, safe, recursive, D)
    THEN Result(safe, [D EXCEPT ![s] = @ \cup {safe}], "ok")
    ELSE IF safe \in tried THEN Result(NoName, D, "diverge")
    ELSE LET next == uniqueName(s, safe, recursive, D)
         IN  IF next = NoName THEN Result(NoName, D, "panic")
             ELSE defineNoPropagate(s, next, recursive, D, tried \cup {safe})

\* Mutant of Scope.define: the candidate that uniqueName proposes is taken
\* without being checked again.
RECURSIVE defineUnchecked(_, _, _, _, _)
defineUnchecked(s, safe, recursive, D, tried) ==
    IF ~defined(s, safe, recursive, D) \/ tried # {}
    THEN LET D1 == [D EXCEPT ![s] = @ \cup {safe}]
         IN  IF recursive /\ parent[s] # NilScope
             THEN LET up == defineUnchecked(parent[s], safe, recursive, D1, tried)
                  IN  IF up.outcome = "ok" THEN Result(safe, up.defs, "ok")
                      ELSE Result(NoName, up.defs, up.outcome)
             ELSE Result(safe, D1, "ok")
    ELSE LET next == uniqueName(s, safe, recursive, D)
         IN  IF next = NoName THEN Result(NoName, D, "panic")
             ELSE defineUnchecked(s, next, recursive, D, tried \cup {safe})

\* Mutant of Scope.define: a rejected candidate is recorded in the scope's
\* own local set before the next one is asked for.
RECURSIVE defineMarkFirst(_, _, _, _, _)
defineMarkFirst(s, safe, recursive, D, tried) ==
    IF ~defined(s, safe, recursive, D)
    THEN LET D1 == [D EXCEPT ![s] = @ \cup {safe}]
         IN  IF recursive /\ parent[s] # NilScope
             THEN LET up == defineMarkFirst(parent[s], safe, recursive, D1, {})
                  IN  IF up.outcome = "ok" THEN Result(safe, up.defs, "ok")
                      ELSE Result(NoName, up.defs, up.outcome)
             ELSE Result(safe, D1, "ok")
    ELSE IF safe \in tried THEN Result(NoName, D, "diverge")
    ELSE LET D2 == [D EXCEPT ![s] = @ \cup {safe}]
             next == uniqueName(s, safe, recursive, D2)
         IN  IF next = NoName THEN Result(NoName, D2, "panic")
             ELSE defineMarkFirst(s, next, recursive, D2, tried \cup {safe})

\* Mutant of Scope.define: the map of the scope is made anew on every call,
\* not only when it is nil.
RECURSIVE defineRemake(_, _, _, _, _)
defineRemake(s, safe, recursive, D, tried) ==
    LET D0 == [D EXCEPT ![s] = {}]
    IN  IF ~defined(s, safe, recursive, D0)
        THEN LET D1 == [D0 EXCEPT ![s] = @ \cup {safe}]
             IN  IF recursive /\ parent[s] # NilScope
                 THEN LET up == defineRemake(parent[s], safe, recursive, D1, {})
                      IN  IF up.outcome = "ok" THEN Result(safe, up.defs, "ok")
                          ELSE Result(NoName, up.defs, up.outcome)
                 ELSE Result(safe, D1, "ok")
        ELSE IF safe \in tried THEN Result(NoName, D0, "diverge")
        ELSE LET next == uniqueName(s, safe, recursive, D0)
             IN  IF next = NoName THEN Result(NoName, D0, "panic")
                 ELSE defineRemake(s, next, recursive, D0, tried \cup {safe})

\* Scope.define on the local sets D. The result has the returned name, the
\* local sets the call leaves behind and how the call ended: "ok" (it
\* returned), "panic" (uniqueName panicked) or "diverge" (the recursion
\* came back to a candidate it had tried already, with nothing changed, and
\* never ends). tried holds the candidates this call has rejected.
RECURSIVE define(_, _, _, _, _)
define(s, safe, recursive, D, tried) ==
    IF ~defined(s, safe, recursive, D)
    THEN LET D1 == [D EXCEPT ![s] = @ \cup {safe}]
         IN  IF recursive /\ parent[s] # NilScope
             THEN LET up == define(parent[s], safe, recursive, D1, {})
                  IN  IF up.outcome = "ok" THEN Result(safe, up.defs, "ok")
                      ELSE Result(NoName, up.defs, up.outcome)
             ELSE Result(safe, D1, "ok")
    ELSE IF safe \in tried THEN Result(NoName, D, "diverge")
    ELSE LET next == uniqueName(s, safe, recursive, D)
         IN  IF next = NoName THEN Result(NoName, D, "panic")
             ELSE define(s, next, recursive, D, tried \cup {safe})

\* Mutant of Scope.Claim: the name is defined recursively.
ClaimOnRecursive(s, name, D) == define(s, safeName(s, name), TRUE, D, {})

\* Scope.Claim as a function of the local sets D.
ClaimOn(s, name, D) == define(s, safeName(s, name), FALSE, D, {})

\* Mutant of Scope.ClaimGlobal: the name is defined in the scope alone.
ClaimGlobalOnLocal(s, name, D) == define(s, safeName(s, name), FALSE, D, {})

ClaimGlobalOn(s, name, D) == define(s, safeName(s, name), TRUE, D, {})

\* ----------------------------------------------------------------- actions
NoCall == [op |-> "none", scope |-> NilScope, name |-> << >>,
           ret |-> NoName, outcome |-> "ok"]

NoStreak == [op |-> "none", name |-> << >>, n |-> 0]

\* The run of calls on a scope after one more call of op with name.
Extend(st, op, name) ==
    IF st.n = 0 \/ (st.op = op /\ st.name = name)
    THEN [op |-> op, name |-> name, n |-> st.n + 1]
    ELSE [op |-> "mixed", name |-> << >>, n |-> st.n + 1]

Init ==
    /\ parent = << NilScope >>
    /\ defs = << {} >>
    /\ safeNameFunc = << NilFunc >>
    /\ uniqueNameFunc = << NilFunc >>
    /\ suggestVarNameFunc = << NilFunc >>
    /\ nops = 0
    /\ last = NoCall
    /\ prev = defs
    /\ returned = << {} >>
    /\ streak = << NoStreak >>

\* A new scope with parent p (NilScope for a root) and the given options.
NewScope(p, sf, uf, gf) ==
    /\ parent' = Append(parent, p)
    /\ defs' = Append(defs, {})
    /\ safeNameFunc' = Append(safeNameFunc, sf)
    /\ uniqueNameFunc' = Append(uniqueNameFunc, uf)
    /\ suggestVarNameFunc' = Append(suggestVarNameFunc, gf)
    /\ prev' = Append(prev, {})
    /\ returned' = Append(returned, {})
    /\ streak' = Append(streak, NoStreak)
    /\ UNCHANGED << nops, last >>

\* scope.New() without options: a new root.
New == NewScope(NilScope, NilFunc, NilFunc, NilFunc)

\* s.New() without options: a new scope with parent s.
Derive(s) == NewScope(s, NilFunc, NilFunc, NilFunc)

\* The state after a call of op on s with raw name `name` ended as r.
Called(op, s, name, r) ==
    /\ nops' = nops + 1
    /\ defs' = r.defs
    /\ prev' = defs
    /\ last' = [op |-> op, scope |-> s, name |-> name,
                ret |-> r.ret, outcome |-> r.outcome]
    /\ returned' =
           IF r.outcome = "ok"
           THEN [returned EXCEPT
                    ![s] = @ \cup {[op |-> op, ret |-> r.ret,
                                    k |-> streak[s].n + 1]}]
           ELSE returned
    /\ streak' = [streak EXCEPT ![s] = Extend(@, op, name)]
    /\ UNCHANGED << parent, safeNameFunc, uniqueNameFunc, suggestVarNameFunc >>

Claim(s, name) == Called("Claim", s, name, ClaimOn(s, name, defs))

ClaimGlobal(s, name) ==
    Called("ClaimGlobal", s, name, ClaimGlobalOn(s, name, defs))

Next ==
    \/ Len(parent) < MaxScopes /\ New
    \/ Len(parent) < MaxScopes /\ \E s \in Scopes : Derive(s)
    \/ nops < MaxOps /\ \E s \in Scopes, name \in RawNames : Claim(s, name)
    \/ nops < MaxOps /\ \E s \in Scopes, name \in RawNames : ClaimGlobal(s, name)

Spec == Init /\ [][Next]_vars

\* ---------------------------------------------------------------- SpecCeil
\* The local sets after n calls of Claim(name) on scope s, from D on
\* (n calls are the first n \div 2 calls followed by the rest; the
\* intermediate local sets are bound by a quantifier so that they are
\* computed once).
RECURSIVE ClaimTimes(_, _, _, _)
ClaimTimes(s, name, n, D) ==
    IF n = 0 THEN D
    ELSE IF n = 1 THEN ClaimOn(s, name, D).defs
    ELSE CHOOSE R \in { ClaimTimes(s, name, n - (n \div 2), P) :
                            P \in { ClaimTimes(s, name, n \div 2, D) } } : TRUE

\* The loop of the unique name handling test, on a new scope that is the
\* whole tree: n calls s.Claim(name), which return n different names (these
\* calls are recorded in returned[s] with number 0).
ClaimLoop(s, name, n) ==
    /\ nops = 0
    /\ Len(parent) = 1
    /\ defs[s] = {}
    /\ \E P \in { ClaimTimes(s, name, n - 1, defs) } :
           LET r == ClaimOn(s, name, P)
           IN  /\ r.outcome = "ok"
               /\ Cardinality(r.defs[s]) = n
               /\ defs' = r.defs
               /\ prev' = P
               /\ last' = [op |-> "Claim", scope |-> s, name |-> name,
                           ret |-> r.ret, outcome |-> "ok"]
               /\ returned' =
                      [returned EXCEPT
                          ![s] = { [op |-> "Claim", ret |-> x, k |-> 0] :
                                      x \in r.defs[s] }]
    /\ streak' = [streak EXCEPT ![s] = [op |-> "Claim", name |-> name, n |-> n]]
    /\ UNCHANGED << nops, parent, safeNameFunc, uniqueNameFunc,
                    suggestVarNameFunc >>

NextCeil ==
    \/ Len(parent) < MaxCeilScopes /\ \E s \in Scopes : Derive(s)
    \/ ClaimLoop(1, << >>, Prefill)
    \/ nops < MaxCeilOps /\ \E s \in Scopes, name \in CeilNames : Claim(s, name)
    \/ nops < MaxCeilOps
           /\ \E s \in Scopes, name \in CeilNames : ClaimGlobal(s, name)

SpecCeil == Init /\ [][NextCeil]_vars

\* -------------------------------------------------------------- SpecSuffix
NextSuffix ==
    \/ Len(parent) < MaxCeilScopes /\ \E s \in Scopes : Derive(s)
    \/ nops < MaxCeilOps
           /\ \E s \in Scopes, name \in SuffixNames : Claim(s, name)
    \/ nops < MaxCeilOps
           /\ \E s \in Scopes, name \in SuffixNames : ClaimGlobal(s, name)

SpecSuffix == Init /\ [][NextSuffix]_vars

\* -------------------------------------------------------------- SpecPolicy
\* The function that the option of scope s installs: a constant function,
\* named by the name it returns, as the functions of the tests of New are.
OverrideName(s) == << "o" >> \o Itoa(s)

\* The options a scope is created with: none, or one of WithSafeNameFunc,
\* WithUniqueNameFunc and WithSuggestVarNameFunc.
Options ==
    { "none", "WithSafeNameFunc", "WithUniqueNameFunc",
      "WithSuggestVarNameFunc" }

\* The field that option `with` sets on scope s when the scope is created
\* with opt.
OptionFunc(opt, with, s) == IF opt = with THEN OverrideName(s) ELSE NilFunc

\* The raw name of SpecPolicy, sanitized to "o3" by the default sanitizer,
\* and the input of Suggest.
PolNames == { << "o", "3", "-" >> }

PolInputs == { << "T", "a", "b", "l", "e", "P", "e", "r", "s", "o", "n" >> }

\* scope.New(opt): the tree is one root.
InitPolicy ==
    /\ parent = << NilScope >>
    /\ defs = << {} >>
    /\ \E opt \in Options :
           /\ safeNameFunc = << OptionFunc(opt, "WithSafeNameFunc", 1) >>
           /\ uniqueNameFunc = << OptionFunc(opt, "WithUniqueNameFunc", 1) >>
           /\ suggestVarNameFunc =
                  << OptionFunc(opt, "WithSuggestVarNameFunc", 1) >>
    /\ nops = 0
    /\ last = NoCall
    /\ prev = defs
    /\ returned = << {} >>
    /\ streak = << NoStreak >>

\* s.New(opt): a new scope with parent s.
DeriveWith(s, opt) ==
    NewScope(s, OptionFunc(opt, "WithSafeNameFunc", Len(parent) + 1),
                OptionFunc(opt, "WithUniqueNameFunc", Len(parent) + 1),
                OptionFunc(opt, "WithSuggestVarNameFunc", Len(parent) + 1))

\* s.Suggest(input): the result of suggestVarName, no field written.
Suggest(s, input) ==
    /\ last' = [op |-> "Suggest", scope |-> s, name |-> input,
                ret |-> suggestVarName(s, input), outcome |-> "ok"]
    /\ prev' = defs
    /\ UNCHANGED << parent, defs, safeNameFunc, uniqueNameFunc,
                    suggestVarNameFunc, nops, returned, streak >>

\* Every scope but the root is derived from the scope created before it.
NextPolicy ==
    \/ Len(parent) < MaxPolScopes
           /\ \E opt \in Options : DeriveWith(Len(parent), opt)
    \/ nops < MaxPolOps /\ \E s \in Scopes, name \in PolNames : Claim(s, name)
    \/ nops < MaxPolOps
           /\ \E s \in Scopes, name \in PolNames : ClaimGlobal(s, name)
    \/ \E s \in Scopes, input \in PolInputs : Suggest(s, input)

SpecPolicy == InitPolicy /\ [][NextPolicy]_vars

\* --------------------------------------------------------------- SpecNames
\* The characters of the strings handed to the name functions: letters in
\* both cases that spell the keyword "if", a letter without case, an
\* underscore, a decimal digit, a number that is no decimal digit, a
\* character that is none of these, and a decoding error.
Alphabet ==
    { "i", "f", "I", "F", "<Lo>", "_", "1", "<No>", "-", RuneError }

Strings == UNION { [1..n -> Alphabet] : n \in 0..MaxLen }

\* The inputs of the tests.
TestNames ==
    { << >>, << "p", "a", "n", "i", "c" >>, << "f", "u", "n", "c" >>,
      << "1", "2", "3" >>, << "a" >>, << "a", "P", "e", "r", "s", "o", "n" >>,
      << "F", "x", "U", "x", "N", "x", "C" >>, << "H", "T", "T", "P" >>,
      << "_" >>, << "x" >>, << "X" >>, << "_", "X" >>, << "_", "1" >>,
      << "<Lo>", "<Lo>", "a" >>, << "A", "b", "C", "d", RuneError >> }

Inputs == Strings \cup TestNames

\* One new scope, on which nothing was called, and an input.
InitNames ==
    /\ parent = << NilScope >>
    /\ defs = << {} >>
    /\ safeNameFunc = << NilFunc >>
    /\ uniqueNameFunc = << NilFunc >>
    /\ suggestVarNameFunc = << NilFunc >>
    /\ nops = 0
    /\ \E input \in Inputs : last = [NoCall EXCEPT !.op = "input", !.name = input]
    /\ prev = defs
    /\ returned = << {} >>
    /\ streak = << NoStreak >>

\* The state after the function fn, applied to the input, ended as r.
Applied(fn, r) ==
    /\ last' = [op |-> fn, scope |-> NilScope, name |-> last.name,
                ret |-> r.ret, outcome |-> r.outcome]
    /\ UNCHANGED << parent, defs, safeNameFunc, uniqueNameFunc,
                    suggestVarNameFunc, nops, prev, returned, streak >>

SafeNameCall ==
    Applied("defaultSafeNameFunc", Outcome(defaultSafeNameFunc(last.name), "ok"))

SuggestCall ==
    Applied("defaultSuggestVarNameFunc",
            Outcome(defaultSuggestVarNameFunc(last.name), "ok"))

ExportedCall == Applied("Exported", Exported(last.name))

UnexportedCall == Applied("Unexported", Unexported(last.name))

NextNames ==
    \/ SafeNameCall
    \/ SuggestCall
    \/ ExportedCall
    \/ UnexportedCall

SpecNames == InitNames /\ [][NextNames]_vars

\* ================================================================== claims
\* The last call was op and returned.
Returned(op) == last.op = op /\ last.outcome = "ok"

\* Every scope from s up to the root uses the default policies.
DefaultPolicies(s) ==
    \A a \in Chain(s) :
        safeNameFunc[a] = NilFunc /\ uniqueNameFunc[a] = NilFunc

\* The names that calls of ClaimGlobal on s have returned.
GlobalNames(s) == { r.ret : r \in { x \in returned[s] : x.op = "ClaimGlobal" } }

\* C1: a name that ClaimGlobal has returned on a scope is in the local set of
\* that scope and of every one of its ancestors, whatever has been done
\* since; and a Claim on a scope never returns a name that an earlier
\* ClaimGlobal returned on that scope or on one of its descendants.
ClaimGlobalReachesAncestors ==
    /\ \A s \in Scopes : \A a \in Chain(s) : GlobalNames(s) \subseteq defs[a]
    /\ Returned("Claim") =>
           \A s \in Scopes :
               last.scope \in Chain(s) => last.ret \notin GlobalNames(s)

\* C1 witness: a ClaimGlobal on a derived scope returned the sanitized name,
\* and the Claim of the same raw name on its parent that came next got the
\* candidate with suffix 0.
ClaimAfterGlobalOnChild ==
    /\ Returned("Claim")
    /\ last.ret = defaultSafeNameFunc(last.name) \o << "0" >>
    /\ \E s \in Scopes :
           /\ parent[s] = last.scope
           /\ defaultSafeNameFunc(last.name) \in GlobalNames(s)

\* C2: in one tree, two calls of ClaimGlobal (on the same scope or on two
\* scopes, with anything in between) never returned the same name.
GlobalClaimsDistinct ==
    \A s, t \in Scopes :
        RootOf(s) = RootOf(t) =>
            \A x \in returned[s], y \in returned[t] :
                /\ x.op = "ClaimGlobal" /\ y.op = "ClaimGlobal"
                /\ << s, x.k >> # << t, y.k >>
                => x.ret # y.ret

\* C2 witness: after a ClaimGlobal on one branch returned the sanitized
\* name, the first call on a scope of another branch of the same tree, a
\* ClaimGlobal of a raw name with the same sanitized form, returned the
\* candidate with suffix 0.
GlobalClaimOnOtherBranch ==
    /\ Returned("ClaimGlobal")
    /\ returned[last.scope] = { [op |-> "ClaimGlobal", ret |-> last.ret, k |-> 1] }
    /\ last.ret = defaultSafeNameFunc(last.name) \o << "0" >>
    /\ \E t \in Scopes :
           /\ t \notin Chain(last.scope)
           /\ last.scope \notin Chain(t)
           /\ RootOf(t) = RootOf(last.scope)
           /\ defaultSafeNameFunc(last.name) \in GlobalNames(t)

\* C3: ClaimGlobal never returns a name that was, just before the call, in
\* the local set of the scope or of one of its ancestors; and on a derived
\* scope with an empty local set whose parent is a root holding only the
\* sanitized name s, it returns s followed by 0.
ClaimGlobalAvoidsChain ==
    Returned("ClaimGlobal") =>
        /\ \A a \in Chain(last.scope) : last.ret \notin prev[a]
        /\ LET s == last.scope
               safe == defaultSafeNameFunc(last.name)
           IN  /\ parent[s] # NilScope
               /\ parent[parent[s]] = NilScope
               /\ prev[s] = {}
               /\ prev[parent[s]] = {safe}
               => last.ret = safe \o << "0" >>

\* C3 witness: the root held the sanitized name through a local Claim, and
\* ClaimGlobal on its child returned the candidate with suffix 0.
GlobalClaimAfterLocalOnRoot ==
    /\ Returned("ClaimGlobal")
    /\ parent[last.scope] # NilScope
    /\ prev[last.scope] = {}
    /\ \E x \in returned[parent[last.scope]] :
           x.op = "Claim" /\ x.ret = defaultSafeNameFunc(last.name)
    /\ last.ret = defaultSafeNameFunc(last.name) \o << "0" >>

\* C4: no two calls on one scope returned the same name, and the name a call
\* returns was not in the scope's local set before the call and is in it
\* after.
ClaimsOnScopeDistinct ==
    /\ \A s \in Scopes : \A x, y \in returned[s] : x.k # y.k => x.ret # y.ret
    /\ Returned("Claim") \/ Returned("ClaimGlobal") =>
           /\ last.ret \notin prev[last.scope]
           /\ last.ret \in defs[last.scope]

\* C4 witness: three calls on one scope, a Claim and a ClaimGlobal among
\* them, with raw names that are not all equal, returned the sanitized name
\* and the candidates with suffix 0 and 1.
ThreeClaimsOnScope ==
    \E s \in Scopes :
        /\ streak[s].op = "mixed"
        /\ Cardinality(returned[s]) = 3
        /\ \E x, y \in returned[s] : x.op = "Claim" /\ y.op = "ClaimGlobal"
        /\ \E x, y \in returned[s] :
               x.ret = << "_", "f", "u", "n", "c", "0" >>
               /\ y.ret = << "_", "f", "u", "n", "c", "1" >>

\* C5: Claim changes the local set of no other scope, and adds to the local
\* set of its own scope the name it returns and nothing else.
ClaimChangesOwnSetOnly ==
    last.op = "Claim" =>
        /\ \A t \in Scopes \ {last.scope} : defs[t] = prev[t]
        /\ last.outcome = "ok" =>
               defs[last.scope] = prev[last.scope] \cup {last.ret}
        /\ last.outcome # "ok" => defs[last.scope] = prev[last.scope]

\* C5 witness: a Claim on a scope that has a parent and a child returned a
\* name that neither of them holds.
ClaimBetweenParentAndChild ==
    /\ Returned("Claim")
    /\ parent[last.scope] # NilScope
    /\ last.ret \notin defs[parent[last.scope]]
    /\ \E c \in Scopes : parent[c] = last.scope /\ last.ret \notin defs[c]

\* C7: with the default policies, a Claim whose sanitized raw name is not in
\* the scope's own local set returns exactly the sanitized raw name,
\* whatever the local sets of the other scopes hold.
ClaimShadows ==
    /\ last.op = "Claim"
    /\ DefaultPolicies(last.scope)
    /\ defaultSafeNameFunc(last.name) \notin prev[last.scope]
    => /\ last.outcome = "ok"
       /\ last.ret = defaultSafeNameFunc(last.name)

\* C7 witness: a Claim returned the sanitized raw name although the parent
\* holds that name through a ClaimGlobal made on another branch.
ClaimShadowsGlobal ==
    /\ Returned("Claim")
    /\ last.ret = defaultSafeNameFunc(last.name)
    /\ parent[last.scope] # NilScope
    /\ last.ret \in prev[parent[last.scope]]
    /\ \E t \in Scopes :
           /\ t \notin Chain(last.scope)
           /\ last.scope \notin Chain(t)
           /\ last.ret \in GlobalNames(t)

\* C6: with the default policies, what Claim returns depends on the raw name
\* and on the scope's own local set alone: on two scopes with equal local
\* sets, a Claim of the same raw name returns the same name.
ClaimIgnoresAncestors ==
    \A a, b \in Scopes : \A name \in RawNames :
        /\ DefaultPolicies(a) /\ DefaultPolicies(b)
        /\ defs[a] = defs[b]
        => ClaimOn(a, name, defs).ret = ClaimOn(b, name, defs).ret

\* A legal safe name: not empty, made of letters, digits and "_", starting
\* with a letter or "_", and neither a keyword nor a predeclared name.
IsSafeName(name) ==
    /\ name # << >>
    /\ \A i \in 1..Len(name) :
           name[i] = "_" \/ IsLetter(name[i]) \/ IsNumber(name[i])
    /\ IsLetter(Head(name)) \/ Head(name) = "_"
    /\ name \notin Keywords \cup PredeclaredNames

\* C8: with the default policies, every name that Claim or ClaimGlobal
\* returns is a legal safe name, and so a fixed point of the sanitizer.
ReturnedNamesSafe ==
    /\ Returned("Claim") \/ Returned("ClaimGlobal")
    /\ DefaultPolicies(last.scope)
    => /\ IsSafeName(last.ret)
       /\ defaultSafeNameFunc(last.ret) = last.ret

\* The scope s holds the names its own calls returned and no other, and for
\* ClaimGlobal no call was made on an ancestor of s and the ancestors hold
\* only names that s holds.
OnlyOwnCalls(s, op) ==
    /\ defs[s] = { r.ret : r \in returned[s] }
    /\ op = "ClaimGlobal" =>
           \A a \in Ancestors(s) : streak[a].n = 0 /\ defs[a] \subseteq defs[s]

\* C9: with the default policies, on a scope that was new when the calls
\* began, the calls of Claim (or of ClaimGlobal) with one raw name return the
\* sanitized name, then the sanitized name followed by 0, 1, ... up to
\* maxAttempts - 1, which are maxAttempts + 1 calls; the next call panics.
RepeatedClaimCeiling ==
    LET s == last.scope
        n == streak[s].n
        safe == defaultSafeNameFunc(last.name)
    IN  /\ last.op \in {"Claim", "ClaimGlobal"}
        /\ DefaultPolicies(s)
        /\ streak[s].op = last.op /\ streak[s].name = last.name
        /\ OnlyOwnCalls(s, last.op)
        => /\ n = 1 => last.outcome = "ok" /\ last.ret = safe
           /\ n \in 2..(maxAttempts + 1) =>
                  last.outcome = "ok" /\ last.ret = safe \o Itoa(n - 2)
           /\ n = maxAttempts + 2 => last.outcome = "panic"

\* C10: a call that ends in the panic of defaultUniqueNameFunc leaves every
\* local set as it was before the call.
PanicLeavesTreeUnchanged == last.outcome = "panic" => defs = prev

\* C10 witness: a ClaimGlobal on a derived scope panicked, the root holding
\* the sanitized name and every candidate.
GlobalClaimOnChildPanicked ==
    /\ last.op = "ClaimGlobal"
    /\ last.outcome = "panic"
    /\ parent[last.scope] # NilScope
    /\ Cardinality(defs[RootOf(last.scope)]) >= maxAttempts + 1

\* C11: claimed names are permanent: in every step of Claim, ClaimGlobal,
\* Suggest and of deriving a scope, every scope keeps every name of its local
\* set.
NamesPermanent == [][\A t \in Scopes : defs[t] \subseteq defs'[t]]_vars

\* A second call has just claimed a name on a scope whose local set held a
\* name before, and that name is still there.
SecondClaimKeepsFirst ==
    /\ last.op \in {"Claim", "ClaimGlobal"}
    /\ last.outcome = "ok"
    /\ prev[last.scope] # {}
    /\ prev[last.scope] \subseteq defs[last.scope]
    /\ last.ret \in defs[last.scope] \ prev[last.scope]

\* The policy function that a call on s is to use, field being one of the
\* three function fields: the function of s, else that of the nearest
\* ancestor that has one, else NilFunc, which stands for the default.
Resolved(field, s) ==
    LET with == { a \in Chain(s) : field[a] # NilFunc }
    IN  IF with = {} THEN NilFunc
        ELSE field[CHOOSE a \in with : \A b \in with : b \in Chain(a)]

\* The sanitized name and the suggestion that the resolved functions give.
ResolvedSafeName(s, name) ==
    IF Resolved(safeNameFunc, s) = NilFunc THEN defaultSafeNameFunc(name)
    ELSE Resolved(safeNameFunc, s)

ResolvedSuggestion(s, input) ==
    IF Resolved(suggestVarNameFunc, s) = NilFunc
    THEN defaultSuggestVarNameFunc(input)
    ELSE Resolved(suggestVarNameFunc, s)

\* The membership test of the last call, on the local sets before it.
WasClaimed(name) ==
    IF last.op = "ClaimGlobal"
    THEN \E a \in Chain(last.scope) : name \in prev[a]
    ELSE name \in prev[last.scope]

\* name is base followed by one or more decimal digits.
IsSuffixed(name, base) ==
    /\ Len(name) > Len(base)
    /\ SubSeq(name, 1, Len(base)) = base
    /\ \A i \in (Len(base) + 1)..Len(name) : IsDigit(name[i])

\* C12: every policy is resolved up the tree, the scope's own function first,
\* then that of the nearest ancestor that has one, then the default: Suggest
\* returns what the resolved suggestion function gives; Claim and ClaimGlobal
\* return the name the resolved sanitizer gives when it is free, else the name
\* of the resolved unique name function, which by default is the resolved
\* sanitizer's name followed by digits.
PolicyResolution ==
    /\ last.op = "Suggest" =>
           last.ret = ResolvedSuggestion(last.scope, last.name)
    /\ (last.op \in {"Claim", "ClaimGlobal"} /\ last.outcome = "ok") =>
           LET b == ResolvedSafeName(last.scope, last.name)
               u == Resolved(uniqueNameFunc, last.scope)
           IN  IF ~WasClaimed(b) THEN last.ret = b
               ELSE IF u # NilFunc THEN last.ret = u
               ELSE IsSuffixed(last.ret, b)

\* C13: the default sanitizer is idempotent: sanitizing a sanitized name
\* gives the same name again.
SanitizeIdempotent ==
    last.op = "defaultSafeNameFunc" =>
        defaultSafeNameFunc(last.ret) = last.ret

\* The sanitizer has changed its input: it dropped a character and escaped the
\* keyword that was left.
SanitizedKeyword ==
    /\ last.op = "defaultSafeNameFunc"
    /\ last.name = << "i", "-", "f" >>
    /\ last.ret = << "_", "i", "f" >>

\* The steps of the default sanitizer as the documentation lists them.
KeepValid(name) ==
    SelectSeq(name, LAMBDA r : r = "_" \/ IsLetter(r) \/ IsNumber(r))

EscapeReserved(name) ==
    IF name \in Keywords \cup PredeclaredNames THEN << "_" >> \o name ELSE name

EscapeLeading(name) ==
    IF IsLetter(name[1]) \/ name[1] = "_" THEN name ELSE << "_" >> \o name

SanitizeSteps(name) ==
    IF KeepValid(name) = << >> THEN << "v" >>
    ELSE EscapeLeading(EscapeReserved(KeepValid(name)))

\* C14: the default sanitizer drops every character that is no letter, digit
\* or underscore, then gives "v" for an empty result, then prefixes a
\* reserved or predeclared name with "_", then prefixes a name whose first
\* character is neither a letter nor "_" with "_"; and Claim on an empty
\* scope returns that name: "v" for "", "_panic" for "panic", "_func" for
\* "func", "_123" for "123".
SanitizeInOrder ==
    last.op = "defaultSafeNameFunc" =>
        /\ last.ret = SanitizeSteps(last.name)
        /\ ClaimOn(1, last.name, defs).ret = last.ret
        /\ last.name = << >> => last.ret = << "v" >>
        /\ last.name = << "p", "a", "n", "i", "c" >> =>
               last.ret = << "_", "p", "a", "n", "i", "c" >>
        /\ last.name = << "f", "u", "n", "c" >> =>
               last.ret = << "_", "f", "u", "n", "c" >>
        /\ last.name = << "1", "2", "3" >> => last.ret = << "_", "1", "2", "3" >>

\* The sanitizer was applied to "123" and gave "_123".
SanitizedDigits ==
    /\ last.op = "defaultSafeNameFunc"
    /\ last.name = << "1", "2", "3" >>
    /\ last.ret = << "_", "1", "2", "3" >>

\* The two conditions of the word pass of the default suggestion: no decoding
\* error after the first character, and no upper case character directly
\* after an upper case character (the first character counts as the one
\* before the second).
NoErrorAfterFirst(input) == \A i \in 2..Len(input) : input[i] # RuneError

NoAdjacentUpper(input) ==
    \A i \in 1..(Len(input) - 1) : ~(IsUpper(input[i]) /\ IsUpper(input[i + 1]))

\* The first character in lower case, then every later upper case character
\* in lower case.
Initials(input) ==
    IF input = << >> THEN << >>
    ELSE LET later == SelectSeq(Tail(input), IsUpper)
         IN  << ToLower(input[1]) >> \o [i \in 1..Len(later) |-> ToLower(later[i])]

\* The first letter of the input in lower case, "v" when it has no letter.
FirstLetter(input) ==
    LET letters == SelectSeq(input, IsLetter)
    IN  IF letters = << >> THEN << "v" >> ELSE << ToLower(letters[1]) >>

\* C15: the default Suggest returns sanitize(r), r being the initials of the
\* input when no decoding error follows the first character and no two
\* adjacent characters are upper case, else its first letter in lower case
\* ("v" without a letter), and "v" in place of "_": "ap" for "aPerson", "h"
\* for "HTTP", "_func" for "FxUxNxC", "v" for "_".
SuggestIsInitials ==
    last.op = "defaultSuggestVarNameFunc" =>
        LET r == IF NoErrorAfterFirst(last.name) /\ NoAdjacentUpper(last.name)
                 THEN Initials(last.name) ELSE FirstLetter(last.name)
        IN  /\ last.ret = defaultSafeNameFunc(IF r = << "_" >> THEN << "v" >> ELSE r)
            /\ last.name = << "a", "P", "e", "r", "s", "o", "n" >> =>
                   last.ret = << "a", "p" >>
            /\ last.name = << "H", "T", "T", "P" >> => last.ret = << "h" >>
            /\ last.name = << "F", "x", "U", "x", "N", "x", "C" >> =>
                   last.ret = << "_", "f", "u", "n", "c" >>
            /\ last.name = << "_" >> => last.ret = << "v" >>

\* The default suggestion was computed for an input whose initials spell a
\* keyword, and was sanitized.
SuggestedKeyword ==
    /\ last.op = "defaultSuggestVarNameFunc"
    /\ last.name = << "I", "f", "F" >>
    /\ last.ret = << "_", "i", "f" >>

\* A legal identifier under the character rules of the sanitizer: not empty,
\* made of the characters the sanitizer keeps, the first one a letter or an
\* underscore.
LegalChars(name) ==
    /\ name # << >>
    /\ \A i \in 1..Len(name) : onlyValidIdentChars(name[i]) # DropRune
    /\ IsLetter(name[1]) \/ name[1] = "_"

\* A Go identifier: not empty, no keyword, made of letters, decimal digits
\* and underscores, the first character no digit.
LegalIdentifier(name) ==
    /\ name # << >>
    /\ name \notin Keywords
    /\ \A i \in 1..Len(name) :
           IsLetter(name[i]) \/ IsDigit(name[i]) \/ name[i] = "_"
    /\ ~IsDigit(name[1])

\* No character of name is upper case or has an upper case.
NoPublicForm(name) == \A i \in 1..Len(name) : ~IsUpper(ToUpper(name[i]))

\* C16 as stated: Exported fails as an invalid identifier exactly on what is
\* no legal identifier under the character rules of the sanitizer, on a legal
\* one it fails for want of an upper case exactly when no character has an
\* upper case, and it returns a name otherwise.
ExportedFailsOnIllegalChars ==
    last.op = "Exported" =>
        /\ last.outcome = "invalid identifier" <=> ~LegalChars(last.name)
        /\ LegalChars(last.name) =>
               (last.outcome = "no uppercase letters" <=> NoPublicForm(last.name))
        /\ last.outcome \in {"invalid identifier", "no uppercase letters", "ok"}
        /\ last.outcome = "ok" <=> last.ret # NoName

\* C16: Exported fails as an invalid identifier exactly on what is no Go
\* identifier (empty, a keyword, a character that is no letter, decimal digit
\* or underscore, a digit in front), on an identifier it fails for want of an
\* upper case exactly when no character has an upper case, and it returns a
\* name otherwise; "" is an invalid identifier and "_" has no upper case.
ExportedFailures ==
    last.op = "Exported" =>
        /\ last.outcome = "invalid identifier" <=> ~LegalIdentifier(last.name)
        /\ LegalIdentifier(last.name) =>
               (last.outcome = "no uppercase letters" <=> NoPublicForm(last.name))
        /\ last.outcome \in {"invalid identifier", "no uppercase letters", "ok"}
        /\ last.outcome = "ok" <=> last.ret # NoName
        /\ last.name = << >> => last.outcome = "invalid identifier"
        /\ last.name = << "_" >> => last.outcome = "no uppercase letters"

\* Exported was called with a keyword and failed as for an invalid
\* identifier.
ExportedKeyword ==
    /\ last.op = "Exported"
    /\ last.name = << "i", "f" >>
    /\ last.outcome = "invalid identifier"

\* C17: when Exported returns, the result is the input from its first
\* character that is upper case or has an upper case on, that character in
\* upper case and the rest unchanged: "X" for "x", for "X" and for "_X".
ExportedFromFirstUpper ==
    (last.op = "Exported" /\ last.outcome = "ok") =>
        LET k == CHOOSE i \in 1..Len(last.name) :
                     /\ IsUpper(ToUpper(last.name[i]))
                     /\ \A j \in 1..(i - 1) : ~IsUpper(ToUpper(last.name[j]))
        IN  /\ last.ret = << ToUpper(last.name[k]) >>
                              \o SubSeq(last.name, k + 1, Len(last.name))
            /\ IsUpper(last.name[1]) => last.ret = last.name
            /\ last.name \in { << "x" >>, << "X" >>, << "_", "X" >> } =>
                   last.ret = << "X" >>

\* Exported has skipped two characters without case and put the third in
\* upper case.
ExportedSkipped ==
    /\ last.op = "Exported"
    /\ last.name = << "_", "<Lo>", "f" >>
    /\ last.ret = << "F" >>

\* C18 as stated: Unexported fails exactly on what is no legal identifier
\* under the character rules of the sanitizer; it returns a legal input
\* unchanged when the first character is not upper case, and with the first
\* character alone in lower case when it is.
UnexportedFailsOnIllegalChars ==
    last.op = "Unexported" =>
        /\ last.outcome = "invalid identifier" <=> ~LegalChars(last.name)
        /\ LegalChars(last.name) =>
               /\ last.outcome = "ok"
               /\ last.ret = IF IsUpper(last.name[1])
                             THEN << ToLower(last.name[1]) >> \o Tail(last.name)
                             ELSE last.name

\* C18: Unexported fails exactly on what is no Go identifier (empty, a
\* keyword, a character that is no letter, decimal digit or underscore, a
\* digit in front); it returns an identifier unchanged when the first
\* character is not upper case ("_X" for "_X"), and with the first character
\* alone in lower case when it is ("x" for "X").
UnexportedFailures ==
    last.op = "Unexported" =>
        /\ last.outcome = "invalid identifier" <=> ~LegalIdentifier(last.name)
        /\ last.outcome \in {"invalid identifier", "ok"}
        /\ LegalIdentifier(last.name) =>
               /\ last.outcome = "ok"
               /\ last.ret = IF IsUpper(last.name[1])
                             THEN << ToLower(last.name[1]) >> \o Tail(last.name)
                             ELSE last.name
        /\ last.name = << "_", "X" >> => last.ret = << "_", "X" >>
        /\ last.name = << "X" >> => last.ret = << "x" >>

\* Unexported has put the first of two upper case characters in lower case.
UnexportedFirstOnly ==
    /\ last.op = "Unexported"
    /\ last.name = << "F", "I" >>
    /\ last.ret = << "f", "I" >>

\* C19: with the default policies, when the sanitized name b is claimed by the
\* membership test of the call (the scope's own local set for Claim, the
\* scope and its ancestors for ClaimGlobal), the call returns b followed by
\* the smallest k >= 0 for which b followed by k is not claimed by that same
\* test on that same scope, on a root and on a derived scope alike.
SmallestFreeSuffix ==
    LET b == defaultSafeNameFunc(last.name)
    IN  (/\ Returned("Claim") \/ Returned("ClaimGlobal")
         /\ DefaultPolicies(last.scope)
         /\ WasClaimed(b))
        => \E k \in 0..nops :
               /\ last.ret = b \o Itoa(k)
               /\ ~WasClaimed(b \o Itoa(k))
               /\ \A j \in 0..(k - 1) : WasClaimed(b \o Itoa(j))

\* C20: every call of Claim and of ClaimGlobal ends: it returns a name, or it
\* panics at the ceiling of attempts; no call retries without end, on a root
\* or on a derived scope, with the default unique name function or with an
\* override that proposes a name already claimed.
CallsTerminate ==
    last.op \in {"Claim", "ClaimGlobal"} =>
        \/ last.outcome = "ok" /\ last.ret # NoName
        \/ last.outcome = "panic"

\* The local sets before the last call, those of the scopes outside the chain
\* of s emptied.
ChainOnly(s) == [t \in 1..Len(prev) |-> IF t \in Chain(s) THEN prev[t] ELSE {}]

\* C21: ClaimGlobal on a scope adds the one name it returns to the local set
\* of the scope and of each of its ancestors and changes nothing else: the
\* local sets of descendants, siblings and all other scopes are as before;
\* and the name does not depend on the local set of any scope outside the
\* chain, a descendant's included.
ClaimGlobalFrame ==
    last.op = "ClaimGlobal" =>
        /\ \A t \in Scopes \ Chain(last.scope) : defs[t] = prev[t]
        /\ last.outcome = "ok" =>
               /\ \A t \in Chain(last.scope) :
                      /\ last.ret \notin prev[t]
                      /\ defs[t] = prev[t] \cup {last.ret}
               /\ ClaimGlobalOn(last.scope, last.name, ChainOnly(last.scope)).ret
                      = last.ret
        /\ last.outcome # "ok" => defs = prev

\* ClaimGlobal on a scope with a parent has returned a name that a child of
\* the scope held already.
GlobalClaimOverChild ==
    /\ last.op = "ClaimGlobal"
    /\ last.outcome = "ok"
    /\ parent[last.scope] # NilScope
    /\ \E t \in Scopes : parent[t] = last.scope /\ last.ret \in prev[t]

\* C22: the results of Exported and Unexported are identifiers again: what
\* either of them returns is accepted by both, so that neither Exported of
\* Unexported of a name nor Unexported of Exported of a name fails as an
\* invalid identifier.
VisibilityClosed ==
    (last.op \in {"Exported", "Unexported"} /\ last.outcome = "ok") =>
        /\ Exported(last.ret).outcome # "invalid identifier"
        /\ Unexported(last.ret).outcome # "invalid identifier"

====
